---- MODULE Spec2Model ----
(***************************************************************************)
(* The pairwise correlation-insight routine of the HR dashboards:          *)
(*   src/streamlit/dashboard_prod_salary.py  (ProductivitySalaryAnalysis)  *)
(*   src/streamlit/dashboard_sat_feed.py     (SatisfactionFeedbackAnalysis)*)
(*                                                                         *)
(* Numbers.  The data are integer-valued floats.  Column "x" is the        *)
(* percentage column (productivity_percent / satisfaction_rate_percent),   *)
(* column "y" the dependent one (salary / feedback_score).  Quantities     *)
(* that are not integers are kept exactly, as integers in a stated unit:   *)
(*   quartiles           in quarters   (Q1 = 9     is 2.25)                *)
(*   fence bounds        in eighths    (upper = 68 is 8.5)                 *)
(*   rounded r and r^2   in thousandths (700       is 0.7)                 *)
(*   slope, intercept    as reduced fractions <<num, den>>                 *)
(*   trend points        x in 99ths, y in units of 1/yunit               *)
(* NaN is a value of its own: every comparison with it is false.           *)
(***************************************************************************)
EXTENDS Integers, Sequences, FiniteSets, TLC

\* ------------------------------------------------------------------ values

\* float NaN: a missing CSV cell, the mean of an empty Series, pearsonr of a
\* constant column.  It lies outside every range of numbers the model computes.
NaN == -999999

IsNaN(v) == v = NaN

\* The two column names of a frame, in the roles the analysis gives them.
ColX == "x"
ColY == "y"

Row(x, y) == [x |-> x, y |-> y]

\* The orders a file can have its two columns in.
ColumnOrders == {<<ColX, ColY>>, <<ColY, ColX>>}

\* ------------------------------------------------------------- sequences

\* The k-th smallest of a sequence of values: the value v with fewer than k
\* values below it and at least k values not above it.
KthSmallest(vals, k) ==
    CHOOSE v \in {vals[i] : i \in 1..Len(vals)} :
        /\ Cardinality({i \in 1..Len(vals) : vals[i] < v}) < k
        /\ Cardinality({i \in 1..Len(vals) : vals[i] <= v}) >= k

\* df[col]: the column as a sequence of values, in row order.
Column(rows, col) == [i \in 1..Len(rows) |-> rows[i][col]]

\* DataFrame.dropna(): rows with a missing value in either column are dropped.
dropna(rows) == SelectSeq(rows, LAMBDA r : ~IsNaN(r.x) /\ ~IsNaN(r.y))

\* -------------------------------------------------------- outlier filter

\* Linear interpolation between the sorted values s[lo] and s[lo+1] (0-based)
\* at the fraction fr/4, in quarters.
Interpolated(vals, lo, fr) ==
    IF fr = 0 THEN 4 * KthSmallest(vals, lo + 1)
    ELSE 4 * KthSmallest(vals, lo + 1)
         + fr * (KthSmallest(vals, lo + 2) - KthSmallest(vals, lo + 1))

\* Series.quantile(q) with pandas' default linear interpolation, q = pct/100
\* for pct in {25, 50, 75}; the result is in quarters.  With s the sorted
\* values, the position is h = (n-1)*q = lo + fr/4 (0-based) and the value
\* s[lo] + (fr/4)*(s[lo+1]-s[lo]).  An empty Series has quantile NaN.
QuantileLower(vals, pct) ==
    IF vals = <<>> THEN NaN
    ELSE 4 * KthSmallest(vals, ((Len(vals) - 1) * (pct \div 25)) \div 4 + 1)

Quantile(vals, pct) ==
    IF vals = <<>> THEN NaN
    ELSE Interpolated(vals, ((Len(vals) - 1) * (pct \div 25)) \div 4,
                            ((Len(vals) - 1) * (pct \div 25)) % 4)

\* IQR = Q3 - Q1 (quarters) and the fence Q1 - 1.5*IQR, Q3 + 1.5*IQR (eighths).
WideBounds(col, Q1, Q3) ==
    [col |-> col, Q1 |-> Q1, Q3 |-> Q3, IQR |-> Q3 - Q1,
     lower |-> 2 * Q1 - 6 * (Q3 - Q1), upper |-> 2 * Q3 + 6 * (Q3 - Q1)]

FenceBounds(col, Q1, Q3) ==
    [col |-> col, Q1 |-> Q1, Q3 |-> Q3, IQR |-> Q3 - Q1,
     lower |-> 2 * Q1 - 3 * (Q3 - Q1), upper |-> 2 * Q3 + 3 * (Q3 - Q1)]

\* The locals of one turn of the loop over the columns: Q1, Q3, IQR and the
\* two bounds, from the quantiles of the frame's column.
FenceLocalsWide(rows, col) ==
    WideBounds(col, Quantile(Column(rows, col), 25), Quantile(Column(rows, col), 75))

FenceLocals(rows, col) ==
    FenceBounds(col, Quantile(Column(rows, col), 25), Quantile(Column(rows, col), 75))

\* df[~((df[col] < lower) | (df[col] > upper))]: the rows kept, in their order.
\* On an empty frame the bounds are NaN and the (empty) frame is kept.
KeepInliersStrict(rows, f) ==
    SelectSeq(rows, LAMBDA r : ~((8 * r[f.col] <= f.lower) \/ (8 * r[f.col] >= f.upper)))

KeepInliers(rows, f) ==
    SelectSeq(rows, LAMBDA r : ~((8 * r[f.col] < f.lower) \/ (8 * r[f.col] > f.upper)))

\* self.df = self.df[~((self.df[col] < (Q1 - 1.5 * IQR)) | (self.df[col] > (Q3 + 1.5 * IQR)))]
FencePassStrict(rows, col) == KeepInliersStrict(rows, FenceLocals(rows, col))

FencePass(rows, col) == KeepInliers(rows, FenceLocals(rows, col))

\* One turn of the loop: the frame it starts from, its locals, the frame it leaves.
FenceTurn(rows, col) ==
    [before |-> rows, f |-> FenceLocals(rows, col), after |-> FencePass(rows, col)]

\* The frame a loop leaves: the last turn's, or the input when no turn ran.
LoopResult(rows, turns) == IF turns = <<>> THEN rows ELSE turns[Len(turns)].after

\* for col in cols: Q1 = ...; Q3 = ...; IQR = ...; self.df = self.df[...]
\* Each turn works on the frame the previous turn left.  The value is the
\* sequence of turns.
RECURSIVE FenceLoopOnOriginal(_, _, _)
FenceLoopOnOriginal(orig, rows, cols) ==
    IF cols = <<>> THEN <<>>
    ELSE <<[before |-> rows, f |-> FenceLocals(orig, Head(cols)),
            after |-> KeepInliers(rows, FenceLocals(orig, Head(cols)))]>>
         \o FenceLoopOnOriginal(orig, KeepInliers(rows, FenceLocals(orig, Head(cols))),
                                Tail(cols))

FenceLoopIndependent(rows, cols) == FenceLoopOnOriginal(rows, rows, cols)

RECURSIVE FenceLoop(_, _)
RECURSIVE TurnThenLoop(_, _)
TurnThenLoop(turn, cols) == <<turn>> \o FenceLoop(turn.after, cols)

FenceLoop(rows, cols) ==
    IF cols = <<>> THEN <<>>
    ELSE TurnThenLoop(FenceTurn(rows, Head(cols)), Tail(cols))

\* The column order a class's _clean_data loops in: the fixed list
\* ['productivity_percent', 'salary'], or self.df.columns, the columns in the
\* order the file has them.
LoopColumns(cls, df) == IF cls = "prod" THEN <<ColX, ColY>> ELSE df.columns

\* The turns of _clean_data on a frame: dropna first, then the loop.
CleanTurns(cls, df) == FenceLoop(dropna(df.rows), LoopColumns(cls, df))

\* ProductivitySalaryAnalysis._clean_data
ProductivitySalaryAnalysis_clean_data(df) ==
    [df EXCEPT !.rows = LoopResult(dropna(df.rows), CleanTurns("prod", df))]

\* SatisfactionFeedbackAnalysis._clean_data (self.df is not None here)
SatisfactionFeedbackAnalysis_clean_data(df) ==
    [df EXCEPT !.rows = LoopResult(dropna(df.rows), CleanTurns("sat", df))]

clean_data(cls, df) ==
    IF cls = "prod" THEN ProductivitySalaryAnalysis_clean_data(df)
    ELSE SatisfactionFeedbackAnalysis_clean_data(df)

\* ------------------------------------------------------------ arithmetic

Abs(v) == IF v < 0 THEN -v ELSE v

Sign(v) == IF v < 0 THEN -1 ELSE IF v > 0 THEN 1 ELSE 0

RECURSIVE GCD(_, _)
GCD(a, b) == IF b = 0 THEN a ELSE GCD(b, a % b)

\* A float that is not an integer is kept as a fraction <<num, den>> in lowest
\* terms with den > 0; <<0, 0>> is NaN.
NaNFrac == <<0, 0>>

IsNaNFrac(f) == f[2] = 0

Reduced(num, den, g) == <<Sign(den) * (num \div g), Abs(den) \div g>>

Frac(num, den) ==
    IF den = 0 THEN NaNFrac ELSE Reduced(num, den, GCD(Abs(num), Abs(den)))

\* The product of two fractions, cross-reduced before multiplying.
Product(a, b) == <<a[1] * b[1], a[2] * b[2]>>

FracMul(f, g) ==
    IF IsNaNFrac(f) \/ IsNaNFrac(g) THEN NaNFrac
    ELSE Product(Frac(f[1], g[2]), Frac(g[1], f[2]))

\* The difference of two fractions over l, a common multiple of their denominators.
DifferenceOver(f, g, l) == Frac(f[1] * (l \div f[2]) - g[1] * (l \div g[2]), l)

FracSub(f, g) ==
    IF IsNaNFrac(f) \/ IsNaNFrac(g) THEN NaNFrac
    ELSE DifferenceOver(f, g, (f[2] \div GCD(f[2], g[2])) * g[2])

\* floor(a * 10^digits / q) for a >= 0, q > 0, one decimal digit at a time,
\* from quot = a div q and rem = a mod q.
RECURSIVE ScaleFloor(_, _, _, _)
ScaleFloor(quot, rem, q, digits) ==
    IF digits = 0 THEN quot
    ELSE ScaleFloor(10 * quot + (10 * rem) \div q, (10 * rem) % q, q, digits - 1)

\* floor(sqrt(m)), searched between lo and hi (lo^2 <= m < (hi+1)^2).
RECURSIVE ISqrt(_, _, _)
ISqrt(m, lo, hi) ==
    IF lo = hi THEN lo
    ELSE IF ((lo + hi + 1) \div 2) * ((lo + hi + 1) \div 2) <= m
    THEN ISqrt(m, (lo + hi + 1) \div 2, hi)
    ELSE ISqrt(m, lo, (lo + hi + 1) \div 2 - 1)

\* round(f * 10^digits) for a fraction f >= 0: floor(2 * f * 10^digits) + 1,
\* halved.  (No input of the model falls exactly on a half.)
RoundScaled(f, digits) ==
    (ScaleFloor((2 * f[1]) \div f[2], (2 * f[1]) % f[2], f[2], digits) + 1) \div 2

\* round(f * 10^digits) for a fraction of either sign, NaN for NaN.
RoundFrac(f, digits) ==
    IF IsNaNFrac(f) THEN NaN
    ELSE Sign(f[1]) * RoundScaled(<<Abs(f[1]), f[2]>>, digits)

\* The sum of a sequence of numbers, halves first.
RECURSIVE SumRange(_, _, _)
SumRange(s, lo, hi) ==
    IF lo > hi THEN 0
    ELSE IF lo = hi THEN s[lo]
    ELSE SumRange(s, lo, (lo + hi) \div 2) + SumRange(s, (lo + hi) \div 2 + 1, hi)

SumSeq(s) == SumRange(s, 1, Len(s))

\* Series.mean(): NaN for an empty Series.
MeanZeroOnEmpty(vals) ==
    IF vals = <<>> THEN <<0, 1>> ELSE Frac(SumSeq(vals), Len(vals))

Mean(vals) == IF vals = <<>> THEN NaNFrac ELSE Frac(SumSeq(vals), Len(vals))

\* ------------------------------------------------------ correlation engine

\* The sums Pearson's r and the least-squares line are made of:
\* Sxx = n*sum(x^2) - sum(x)^2, Syy likewise, Sxy = n*sum(x*y) - sum(x)*sum(y).
MomentsOf(n, Sx, Sy, Sx2, Sy2, Sxy) ==
    [n |-> n, Sx |-> Sx, Sy |-> Sy,
     Sxx |-> n * Sx2 - Sx * Sx, Syy |-> n * Sy2 - Sy * Sy, Sxy |-> n * Sxy - Sx * Sy]

Moments(rows) ==
    MomentsOf(Len(rows),
              SumSeq(Column(rows, ColX)),
              SumSeq(Column(rows, ColY)),
              SumSeq([i \in 1..Len(rows) |-> rows[i].x * rows[i].x]),
              SumSeq([i \in 1..Len(rows) |-> rows[i].y * rows[i].y]),
              SumSeq([i \in 1..Len(rows) |-> rows[i].x * rows[i].y]))

\* scipy.stats.pearsonr(x, y)[0]: r = Sxy / sqrt(Sxx * Syy), kept as its sign
\* and its square (a fraction); NaN, with a warning and no exception, when x or
\* y is constant.
PearsonOf(m) ==
    IF m.Sxx = 0 \/ m.Syy = 0 THEN [sign |-> 0, sq |-> NaNFrac]
    ELSE [sign |-> Sign(m.Sxy),
          sq   |-> FracMul(Frac(Abs(m.Sxy), m.Sxx), Frac(Abs(m.Sxy), m.Syy))]

pearsonr(rows) == PearsonOf(Moments(rows))

\* The p-value is compared with 0.05 only.  With n - 2 degrees of freedom,
\* p < 0.05 iff r^2 > t^2 / (t^2 + n - 2) for t the two-sided 5% point of
\* Student's t; the table holds that bound in millionths, rounded down, for
\* n = 30 .. 55.  r = +-1 has p = 0; a NaN r has a NaN p, and NaN < 0.05 is false.
CriticalRSquared ==
    <<130325, 126057, 122059, 118306, 114777, 111452, 108314, 105347, 102539,
      99876, 97347, 94944, 92656, 90476, 88396, 86409, 84510, 82692, 80951,
      79281, 77679, 76140, 74662, 73239, 71869, 70550>>

p_value_below_005(corr, n) ==
    /\ ~IsNaNFrac(corr.sq)
    /\ ScaleFloor(corr.sq[1] \div corr.sq[2], corr.sq[1] % corr.sq[2], corr.sq[2], 6)
          > CriticalRSquared[n - 29]

\* round(corr, 3), in thousandths: 1000*|r| = sqrt(10^6 * r^2) lies in
\* [k - 1/2, k + 1/2) iff floor(sqrt(floor(4 * 10^6 * r^2))) is 2k - 1 or 2k.
round3_corr_truncating(corr) ==
    IF IsNaNFrac(corr.sq) THEN NaN
    ELSE corr.sign * ISqrt(ScaleFloor(corr.sq[1] \div corr.sq[2],
                                      corr.sq[1] % corr.sq[2], corr.sq[2], 6), 0, 1000)

round3_corr(corr) ==
    IF IsNaNFrac(corr.sq) THEN NaN
    ELSE corr.sign * ((ISqrt(ScaleFloor((4 * corr.sq[1]) \div corr.sq[2],
                                        (4 * corr.sq[1]) % corr.sq[2], corr.sq[2], 6),
                             0, 2000) + 1) \div 2)

\* round(corr**2, 3), in thousandths.
round3_corr_squared(corr) == RoundFrac(corr.sq, 3)

\* str() of the LinAlgError np.linalg.lstsq raises.
LinAlgError == "SVD did not converge in Linear Least Squares"

\* The line through the points, from the slope: intercept = mean(y) - slope*mean(x).
LineWithSlope(m, slope) ==
    [raised |-> FALSE, slope |-> slope,
     intercept |-> FracSub(Frac(m.Sy, m.n), FracMul(slope, Frac(m.Sx, m.n)))]

\* np.polyfit(x, y, 1) -> [slope, intercept], from the sums and the first x.
\*   x not constant: slope = Sxy/Sxx, intercept = mean(y) - slope*mean(x).
\*   x constant c # 0: the scaled design matrix has two equal columns and
\*     lstsq returns the minimum-norm solution (with a RankWarning):
\*     slope = mean(y)/(2c), intercept = mean(y)/2.
\*   x constant 0: scaling divides 0 by 0 and lstsq is handed NaN; it raises
\*     LinAlgError or returns NaN coefficients, as the LAPACK build has it
\*     (svd: "raise" or "nan").
FitOf(m, x1, svd) ==
    IF m.Sxx # 0 THEN LineWithSlope(m, Frac(m.Sxy, m.Sxx))
    ELSE IF x1 # 0
    THEN [raised |-> FALSE, slope |-> Frac(m.Sy, 2 * x1 * m.n),
          intercept |-> Frac(m.Sy, 2 * m.n)]
    ELSE [raised |-> svd = "raise", slope |-> NaNFrac, intercept |-> NaNFrac]

polyfit(rows, svd) == FitOf(Moments(rows), rows[1].x, svd)

\* ------------------------------------------------------------- analyzers

\* Python's None and a value that is not None.
None == <<>>
Some(v) == <<v>>

\* ProductivitySalaryAnalysis.__init__ / SatisfactionFeedbackAnalysis.__init__
NewAnalyzer == [df |-> None, correlation |-> None, regression_line |-> None]

\* The minimum sample sizes the code tests len(df) against.
AnalyzeMinSamples == 30
LoadMinSamples == 30
CalcMinSamples == 30

\* An operation's outcome: the analyzer it leaves and the exception it raised
\* ("" when it returned).
Returned(a) == [a |-> a, raised |-> ""]
Raised(a, e) == [a |-> a, raised |-> e]

\* ProductivitySalaryAnalysis._load_data: pd.read_csv lets FileNotFoundError
\* through.  file: [exists, columns, rows].
ProductivitySalaryAnalysis_load_data(a, csv) ==
    IF ~csv.exists THEN Raised(a, "[Errno 2] No such file or directory")
    ELSE Returned([a EXCEPT !.df = Some([columns |-> csv.columns, rows |-> csv.rows])])

\* SatisfactionFeedbackAnalysis._load_data: FileNotFoundError becomes ValueError.
SatisfactionFeedbackAnalysis_load_data(a, csv) ==
    IF ~csv.exists THEN Raised(a, "Arquivo de dados não encontrado")
    ELSE Returned([a EXCEPT !.df = Some([columns |-> csv.columns, rows |-> csv.rows])])

\* The dict both classes store in self.correlation: corr and p_value from
\* pearsonr, slope and intercept from np.polyfit.
CorrelationDict(corr, n, fit) ==
    [pearson_r     |-> round3_corr(corr),
     r_squared     |-> round3_corr_squared(corr),
     significancia |-> IF p_value_below_005(corr, n)
                       THEN "Significativa" ELSE "Não Significativa",
     slope         |-> fit.slope,
     intercept     |-> fit.intercept]

CorrelationOf(rows, fit) == CorrelationDict(pearsonr(rows), Len(rows), fit)

\* The assignments to self.regression_line and self.correlation once np.polyfit
\* has returned; its LinAlgError leaves the analyzer as it was.
StoreCorrelation(a, fit) ==
    IF fit.raised THEN Raised(a, LinAlgError)
    ELSE Returned([a EXCEPT
            !.regression_line = Some([slope |-> fit.slope, intercept |-> fit.intercept]),
            !.correlation = Some(CorrelationOf(a.df[1].rows, fit))])

\* ProductivitySalaryAnalysis._calculate_correlation
ProductivitySalaryAnalysis_calculate_correlation(a, svd) ==
    StoreCorrelation(a, polyfit(a.df[1].rows, svd))

\* _calculate_correlation returning early on 30 rows too.
SatisfactionFeedbackAnalysis_calculate_correlation_inclusive(a, svd) ==
    IF a.df = None THEN Returned(a)
    ELSE IF Len(a.df[1].rows) <= CalcMinSamples THEN Returned(a)
    ELSE StoreCorrelation(a, polyfit(a.df[1].rows, svd))

\* SatisfactionFeedbackAnalysis._calculate_correlation: returns at once, leaving
\* correlation and regression_line as they are, when df is None or short.
SatisfactionFeedbackAnalysis_calculate_correlation(a, svd) ==
    IF a.df = None THEN Returned(a)
    ELSE IF Len(a.df[1].rows) < CalcMinSamples THEN Returned(a)
    ELSE StoreCorrelation(a, polyfit(a.df[1].rows, svd))

\* --------------------------------------------------------- classification

\* strength / strength_map: the dict's items in insertion order, bounds in
\* thousandths.
strength_map ==
    <<[lo |-> 700,   hi |-> 1000, label |-> "Forte Positiva"],
      [lo |-> 300,   hi |-> 700,  label |-> "Moderada Positiva"],
      [lo |-> -300,  hi |-> 300,  label |-> "Fraca/Nula"],
      [lo |-> -700,  hi |-> -300, label |-> "Moderada Negativa"],
      [lo |-> -1000, hi |-> -700, label |-> "Forte Negativa"]>>

\* k[0] <= abs(pearson_r) <= k[1]; false for a NaN pearson_r.
InBand(k, pearson_r) ==
    /\ ~IsNaN(pearson_r)
    /\ k.lo <= Abs(pearson_r)
    /\ Abs(pearson_r) <= k.hi

\* The lookup with the bands tested against pearson_r itself.
RECURSIVE FirstMatchSigned(_, _)
FirstMatchSigned(items, pearson_r) ==
    IF items = <<>> THEN "Indeterminada"
    ELSE IF ~IsNaN(pearson_r) /\ Head(items).lo <= pearson_r /\ pearson_r <= Head(items).hi
    THEN Head(items).label
    ELSE FirstMatchSigned(Tail(items), pearson_r)

\* next((v for k, v in items if k[0] <= abs(r) <= k[1]), "Indeterminada")
RECURSIVE FirstMatch(_, _)
FirstMatch(items, pearson_r) ==
    IF items = <<>> THEN "Indeterminada"
    ELSE IF InBand(Head(items), pearson_r) THEN Head(items).label
    ELSE FirstMatch(Tail(items), pearson_r)

corr_strength_weakest_first(pearson_r) ==
    FirstMatch(<<strength_map[3], strength_map[2], strength_map[1]>>, pearson_r)

corr_strength(pearson_r) == FirstMatch(strength_map, pearson_r)

\* ------------------------------------------------------ insights, charts

\* The numbers the reports and the chart are written with.
TopGroupMin == 75
BottomGroupMax == 25
CriticalProductivity == 90
ReportDeltaX == 10
TrendPoints == 100

\* format_number / format_num: f"{float(value):,.{precision}f}", the value
\* rounded to `precision` decimals (in units of 10^-precision); a NaN is
\* written "nan".  The "N/A" of the except branch needs a value float() refuses.
format_num(value, precision) == RoundFrac(value, precision)

\* df[df[x] >= 75][y] and df[df[x] <= 25][y]
TopGroup(rows) == Column(SelectSeq(rows, LAMBDA r : r.x >= TopGroupMin), ColY)
BottomGroup(rows) == Column(SelectSeq(rows, LAMBDA r : r.x <= BottomGroupMax), ColY)

\* self.correlation['r_squared'] * 100 written with one decimal: thousandths
\* of r^2 are tenths of a percent.
ExplainedVariance(c) == c.r_squared

\* SatisfactionFeedbackAnalysis.generate_insights
InsufficientInsights == "Dados insuficientes para gerar insights"

generate_insights(a) ==
    IF a.correlation = None
    THEN [text |-> InsufficientInsights, pearson_r |-> NaN, corr_strength |-> "",
          significancia |-> "", explained |-> NaN, impact |-> NaN,
          top_25 |-> NaN, bottom_25 |-> NaN]
    ELSE LET c    == a.correlation[1]
             rows == a.df[1].rows
         IN  [text          |-> "insights",
              pearson_r     |-> c.pearson_r,
              corr_strength |-> corr_strength(c.pearson_r),
              significancia |-> c.significancia,
              explained     |-> ExplainedVariance(c),
              impact        |-> format_num(FracMul(c.slope, <<ReportDeltaX, 1>>), 2),
              top_25        |-> format_num(Mean(TopGroup(rows)), 2),
              bottom_25     |-> format_num(Mean(BottomGroup(rows)), 2)]

\* ProductivitySalaryAnalysis.generate_report.  outliers counts the rows with
\* x > 90 and y below the median of y.
generate_report(a) ==
    LET c      == a.correlation[1]
        rows   == a.df[1].rows
        median == Quantile(Column(rows, ColY), 50)
    IN  [text          |-> "report",
         corr_strength |-> corr_strength(c.pearson_r),
         significancia |-> c.significancia,
         explained     |-> ExplainedVariance(c),
         difference    |-> format_num(FracSub(Mean(TopGroup(rows)), Mean(BottomGroup(rows))), 0),
         outliers      |-> Len(SelectSeq(rows, LAMBDA r :
                               r.x > CriticalProductivity /\ 4 * r.y < median))]

\* Series.min() / Series.max(): NaN for an empty Series.
SeriesMin(vals) ==
    IF vals = <<>> THEN NaN
    ELSE CHOOSE v \in {vals[i] : i \in 1..Len(vals)} : \A i \in 1..Len(vals) : v <= vals[i]

SeriesMax(vals) ==
    IF vals = <<>> THEN NaN
    ELSE CHOOSE v \in {vals[i] : i \in 1..Len(vals)} : \A i \in 1..Len(vals) : v >= vals[i]

\* np.linspace(start, stop, num): num values start + i * (stop - start)/(num - 1),
\* i = 0 .. num - 1, the last one being stop, kept in units of 1/(num - 1);
\* all NaN when start or stop is (the min and max of an empty Series).
linspace_shifted(start, stop, num) ==
    IF IsNaN(start) \/ IsNaN(stop) THEN [i \in 1..num |-> NaN]
    ELSE [i \in 1..num |-> (num - 1) * start + i * (stop - start)]

linspace(start, stop, num) ==
    IF IsNaN(start) \/ IsNaN(stop) THEN [i \in 1..num |-> NaN]
    ELSE [i \in 1..num |-> (num - 1) * start + (i - 1) * (stop - start)]

\* The least common denominator of a line's two coefficients, 0 for NaN ones.
LineUnit(line) ==
    IF IsNaNFrac(line.slope) \/ IsNaNFrac(line.intercept) THEN 0
    ELSE (line.slope[2] \div GCD(line.slope[2], line.intercept[2])) * line.intercept[2]

\* self.regression_line(x_values): the poly1d evaluated at each x.  For x in
\* units of 1/den and coefficients over the denominator L, slope*x + intercept
\* in units of 1/(den * L).
regression_line(line, x_values, den, L) ==
    [i \in 1..Len(x_values) |->
        IF L = 0 \/ IsNaN(x_values[i]) THEN NaN
        ELSE line.slope[1] * (L \div line.slope[2]) * x_values[i]
             + line.intercept[1] * (L \div line.intercept[2]) * den]

\* The trend trace: go.Scatter(x=x_values, y=self.regression_line(x_values)),
\* with the ends of the range and the line it was drawn from; x in units of
\* 1/xunit, y in units of 1/yunit.
TrendTrace(first, last, line, x_values, L) ==
    [first |-> first, last |-> last, num |-> Len(x_values),
     slope |-> line.slope, intercept |-> line.intercept,
     xunit |-> TrendPoints - 1, x |-> x_values,
     yunit |-> (TrendPoints - 1) * L,
     y |-> regression_line(line, x_values, TrendPoints - 1, L)]

TrendOver(first, last, line) ==
    TrendTrace(first, last, line, linspace(first, last, TrendPoints), LineUnit(line))

\* The figure of plot_analysis / plot_interactive: the scatter trace, the trend
\* trace (the line over np.linspace(min x, max x, 100)) and the annotation.
Figure(a, withSignificance) ==
    LET rows == a.df[1].rows
        c    == a.correlation[1]
    IN  [scatter |-> rows,
         trend   |-> TrendOver(SeriesMin(Column(rows, ColX)), SeriesMax(Column(rows, ColX)),
                               a.regression_line[1]),
         annotation |-> [pearson_r |-> c.pearson_r, r_squared |-> c.r_squared,
                         significancia |-> IF withSignificance THEN c.significancia ELSE ""]]

\* ProductivitySalaryAnalysis.plot_analysis
plot_analysis(a) == Figure(a, TRUE)

\* SatisfactionFeedbackAnalysis.plot_interactive; subscripting None raises.
plot_interactive(a) ==
    IF a.regression_line = None \/ a.correlation = None
    THEN [raised |-> "TypeError", fig |-> None]
    ELSE [raised |-> "", fig |-> Some(Figure(a, FALSE))]

\* ----------------------------------------------------------------- loaders

\* st.error(prefix + str(e)): what the page shows for a caught exception.
NoError == <<>>
StError(prefix, e) == <<prefix, e>>

\* The analyzer with self.df replaced.
WithFrame(a, df) == [a EXCEPT !.df = Some(df)]

\* ProductivitySalaryAnalysis.analyze: the pair (figure, report) or the
\* exception that ended it.  The steps, last first:
\*   return self.plot_analysis(), self.generate_report()
AnalyzeResult(done) ==
    IF done.raised # "" THEN [raised |-> done.raised, fig |-> None, report |-> None]
    ELSE [raised |-> "", fig |-> Some(plot_analysis(done.a)),
          report |-> Some(generate_report(done.a))]

\*   if len(self.df) < 30: raise ValueError(...); self._calculate_correlation()
AnalyzeCleaned(cleaned, svd) ==
    IF Len(cleaned.df[1].rows) < AnalyzeMinSamples
    THEN [raised |-> "Dados insuficientes para análise", fig |-> None, report |-> None]
    ELSE AnalyzeResult(ProductivitySalaryAnalysis_calculate_correlation(cleaned, svd))

\*   self._load_data(file_path); self._clean_data()
AnalyzeLoaded(loaded, svd) ==
    IF loaded.raised # "" THEN [raised |-> loaded.raised, fig |-> None, report |-> None]
    ELSE AnalyzeCleaned(
            WithFrame(loaded.a, ProductivitySalaryAnalysis_clean_data(loaded.a.df[1])), svd)

analyze(csv, svd) ==
    AnalyzeLoaded(ProductivitySalaryAnalysis_load_data(NewAnalyzer, csv), svd)

\* load_analyzer: analyze() behind try/except; (None, None) and an st.error on
\* any exception.
AnalyzerOutcome(r) ==
    IF r.raised # ""
    THEN [fig |-> None, report |-> None, error |-> StError("Erro na análise: ", r.raised)]
    ELSE [fig |-> r.fig, report |-> r.report, error |-> NoError]

load_analyzer(csv, svd) == AnalyzerOutcome(analyze(csv, svd))

\* load_analysis: the analyzer, or None and an st.error on any exception.  The
\* steps, last first:
\*   analyzer._calculate_correlation(); return analyzer
AnalysisOutcome(done) ==
    IF done.raised # ""
    THEN [analyzer |-> None, error |-> StError("Erro no processamento: ", done.raised)]
    ELSE [analyzer |-> Some(done.a), error |-> NoError]

\*   if len(analyzer.df) < 30: raise ValueError("Dados insuficientes")
LoadCleanedUnchecked(cleaned, svd) ==
    AnalysisOutcome(SatisfactionFeedbackAnalysis_calculate_correlation(cleaned, svd))

LoadCleaned(cleaned, svd) ==
    IF Len(cleaned.df[1].rows) < LoadMinSamples
    THEN [analyzer |-> None,
          error |-> StError("Erro no processamento: ", "Dados insuficientes")]
    ELSE AnalysisOutcome(SatisfactionFeedbackAnalysis_calculate_correlation(cleaned, svd))

\*   analyzer._load_data(file_path); analyzer._clean_data()
LoadLoaded(loaded, svd) ==
    IF loaded.raised # ""
    THEN [analyzer |-> None, error |-> StError("Erro no processamento: ", loaded.raised)]
    ELSE LoadCleaned(
            WithFrame(loaded.a, SatisfactionFeedbackAnalysis_clean_data(loaded.a.df[1])), svd)

load_analysis(csv, svd) ==
    LoadLoaded(SatisfactionFeedbackAnalysis_load_data(NewAnalyzer, csv), svd)

\* --------------------------------------------------------------- the pages

\* What a run of a page's script leaves on the screen.  error: the st.error of
\* a loader; exception: an exception no handler caught; chart, report, key,
\* impacto: the elements drawn, None when not drawn; metric: the fixed
\* "Impacto Salarial por Produtividade" box of the productivity page.
BlankScreen ==
    [error |-> NoError, exception |-> "", chart |-> None, report |-> None,
     key |-> None, metric |-> None, impacto |-> None]

\* st.metric of a simulator: the slider value it was computed for and the
\* number written.
Impacto(aumento, value) == [aumento |-> aumento, value |-> value]

\* The simulator form: whether its button was pressed in this run, and the
\* value of its slider.
NotSubmitted == [submitted |-> FALSE, aumento |-> 0]
Submitted(aumento) == [submitted |-> TRUE, aumento |-> aumento]

\* The figure the fixed metric box and the simulator of the productivity page
\* are written with: 2450 per 10 points.
FixedImpact == 2450
FixedImpactStep == 10

\* dashboard_prod_salary.main with `loaded` what load_analyzer gave (computed
\* or from st.cache_data).
prod_main(loaded, form) ==
    [error     |-> loaded.error,
     exception |-> "",
     chart     |-> loaded.fig,
     report    |-> loaded.report,
     key       |-> None,
     metric    |-> IF loaded.report # None THEN Some(FixedImpact) ELSE None,
     impacto   |-> IF loaded.report # None /\ form.submitted
                   THEN Some(Impacto(form.aumento,
                            format_num(Frac(FixedImpact * form.aumento, FixedImpactStep), 0)))
                   ELSE None]

\* analyzer.df[analyzer.df['satisfaction_rate_percent'] >= min_satisfaction]
MinSatisfactionFilter(rows, minimum) ==
    SelectSeq(rows, LAMBDA r : r.x >= minimum)

\* The "Estatísticas Chave" box: the two means with one decimal and whether the
\* stored correlation is significant.
KeyStatistics(a) ==
    [mean_x |-> format_num(Mean(Column(a.df[1].rows, ColX)), 1),
     mean_y |-> format_num(Mean(Column(a.df[1].rows, ColY)), 1),
     significativa |-> IF a.correlation[1].significancia = "Significativa"
                       THEN "Sim" ELSE "Não"]

\* The elements dashboard_sat_feed.main draws from the analyzer once `plot`,
\* the outcome of plot_interactive, is there.
SatDraw(a, plot, form) ==
    IF plot.raised # "" THEN [BlankScreen EXCEPT !.exception = plot.raised]
    ELSE [error     |-> NoError,
          exception |-> "",
          chart     |-> plot.fig,
          report    |-> Some(generate_insights(a)),
          key       |-> Some(KeyStatistics(a)),
          metric    |-> None,
          impacto   |-> IF form.submitted
                        THEN Some(Impacto(form.aumento, format_num(
                                FracMul(a.correlation[1].slope, <<form.aumento, 1>>), 2)))
                        ELSE None]

SatDrawAll(a, form) == SatDraw(a, plot_interactive(a), form)

\* The body of dashboard_sat_feed.main for an analyzer that is not None: the
\* filter replaces analyzer.df, and everything drawn reads the analyzer.
sat_render(analyzer, minimum, form) ==
    SatDrawAll(WithFrame(analyzer, [analyzer.df[1] EXCEPT
                                      !.rows = MinSatisfactionFilter(@, minimum)]), form)

\* dashboard_sat_feed.main with `loaded` what load_analysis gave (computed or
\* from st.cache_data, which hands out a fresh copy on every run).
sat_main(loaded, minimum, form) ==
    IF loaded.analyzer = None THEN [BlankScreen EXCEPT !.error = loaded.error]
    ELSE sat_render(loaded.analyzer[1], minimum, form)

VARIABLES
    app,                \* the page being served: "prod" or "sat"
    file,               \* the CSV file: [exists, columns, rows]
    cache,              \* st.cache_data's entry for the loader: None or its result
    ran,                \* the script has run at least once
    min_satisfaction,   \* the "Filtro Mínimo de Satisfação" slider
    screen              \* what the latest run drew

dvars == <<app, file, cache, ran, min_satisfaction, screen>>

\* Bounds of the files and of the widget values tried.
MaxBlock == 15

\* The rows a file is made of, in a fixed order.
FileRows ==
    <<Row(0, 1), Row(0, 2), Row(50, 1), Row(50, 2), Row(80, 1), Row(80, 2),
      Row(50, NaN)>>

BlockCounts == {1, MaxBlock - 1, MaxBlock}

Repeat(row, count) == [i \in 1..count |-> row]

\* A file's rows: three distinct rows, each repeated.
Blocks(i, j, k, ci, cj, ck) ==
    Repeat(FileRows[i], ci) \o Repeat(FileRows[j], cj) \o Repeat(FileRows[k], ck)

MissingFile == [exists |-> FALSE, columns |-> <<>>, rows |-> <<>>]

\* Values of the sliders: min_satisfaction (0..100, default 0), the simulator
\* of the satisfaction page (1..20, default 5) and of the productivity page
\* (1..50, default 10).
MinSatisfactionValues == {0, 50, 80, 100}
SatAumentoValues == {5, 20}
ProdAumentoValues == {10, 25}

\* The outcomes lstsq can have on a NaN matrix.
SvdOutcomes == {"raise", "nan"}

DInit ==
    /\ app \in {"prod", "sat"}
    /\ \/ file = MissingFile
       \/ \E i, j, k \in 1..Len(FileRows), ci, cj, ck \in BlockCounts, cols \in ColumnOrders :
            /\ i < j /\ j < k
            /\ file = [exists |-> TRUE, columns |-> cols,
                       rows |-> Blocks(i, j, k, ci, cj, ck)]
    /\ cache = None
    /\ ran = FALSE
    /\ min_satisfaction = 0
    /\ screen = BlankScreen

\* The loader's possible results in this run: st.cache_data runs the function
\* on a miss and returns the stored result on a hit.
ProdLoaded ==
    IF cache # None THEN {cache[1]}
    ELSE {load_analyzer(file, svd) : svd \in SvdOutcomes}

SatLoaded ==
    IF cache # None THEN {cache[1]}
    ELSE {load_analysis(file, svd) : svd \in SvdOutcomes}

\* The productivity page's script runs: first load, or a rerun.
ProdRun(form) ==
    /\ app = "prod"
    /\ \E loaded \in ProdLoaded :
          /\ cache' = Some(loaded)
          /\ screen' = prod_main(loaded, form)
    /\ ran' = TRUE
    /\ UNCHANGED <<app, file, min_satisfaction>>

ProdMain == ProdRun(NotSubmitted)

\* "Calcular Impacto" pressed; the form is on the page only under a report.
ProdSubmit ==
    /\ ran /\ screen.report # None
    /\ \E aumento \in ProdAumentoValues : ProdRun(Submitted(aumento))

\* The satisfaction page's script runs with the slider at v.
SatRun(v, form) ==
    /\ app = "sat"
    /\ \E loaded \in SatLoaded :
          /\ cache' = Some(loaded)
          /\ screen' = sat_main(loaded, v, form)
    /\ min_satisfaction' = v
    /\ ran' = TRUE
    /\ UNCHANGED <<app, file>>

SatMain == SatRun(min_satisfaction, NotSubmitted)

\* The slider is moved: the script reruns with the new value.
SatSlide ==
    /\ ran
    /\ \E v \in MinSatisfactionValues : SatRun(v, NotSubmitted)

\* "Calcular" pressed; the form is on the page only when an analyzer was shown.
SatSubmit ==
    /\ ran /\ screen.key # None
    /\ \E aumento \in SatAumentoValues : SatRun(min_satisfaction, Submitted(aumento))

\* ------------------------------------------------ the filter on its own

\* _clean_data called on an analyzer whose df is a small frame, once and again.
VARIABLES
    h_cls,      \* the class of the analyzer: "prod" or "sat"
    h_df,       \* analyzer.df: [columns, rows]
    h_hist,     \* the rows of analyzer.df at construction and after each call
    h_turns     \* the turns of the loop in the latest call

hvars == <<h_cls, h_df, h_hist, h_turns>>

\* The classification applied to a stored pearson_r on its own.
VARIABLES
    c_r,        \* a pearson_r as stored: thousandths in -1000..1000, or NaN
    c_label     \* the label given, "" before

cvars == <<c_r, c_label>>

vars == <<dvars, hvars, cvars>>

\* Bounds of the small frames.
MaxRows == 4
MaxCleanCalls == 2

HXVals == {0, 1, 3}
HYVals == {0, 1}
HRows == {Row(x, y) : x \in HXVals, y \in HYVals} \cup {Row(1, NaN)}

\* The hand-computed quartile example: one variable with values 1,2,3,4,5,100.
QuartileExample == [i \in 1..6 |-> Row(<<1, 2, 3, 4, 5, 100>>[i], 0)]
\* A frame whose quartiles shift once its outlier is gone.
RefilterExample == [i \in 1..5 |-> Row(<<0, 0, 0, 1, 3>>[i], 0)]

\* A frame whose survivors depend on which column is fenced first.
OrderExample == <<Row(0, 0), Row(0, 0), Row(0, 1), Row(1, 0)>>

\* A frame with a value exactly on a fence bound: once the row (9,1) is gone,
\* x is 0,0,0,2,5 with Q3 = 2, IQR = 2 and an upper bound of 5.
BoundExample == <<Row(0, 0), Row(0, 0), Row(0, 0), Row(2, 0), Row(5, 0), Row(9, 1)>>

HFrames ==
    UNION {[1..n -> HRows] : n \in 0..MaxRows}
        \cup {QuartileExample, RefilterExample, OrderExample, BoundExample}

HInit ==
    /\ h_cls \in {"prod", "sat"}
    /\ \E rows \in HFrames, cols \in ColumnOrders :
          h_df = [columns |-> cols, rows |-> rows]
    /\ h_hist = <<h_df.rows>>
    /\ h_turns = <<>>

H_clean_data ==
    /\ Len(h_hist) <= MaxCleanCalls
    /\ h_df' = clean_data(h_cls, h_df)
    /\ h_turns' = CleanTurns(h_cls, h_df)
    /\ h_hist' = Append(h_hist, h_df'.rows)
    /\ UNCHANGED h_cls

HNext == H_clean_data /\ UNCHANGED <<dvars, cvars>>

CInit ==
    /\ c_r \in (-1000..1000) \cup {NaN}
    /\ c_label = ""

C_corr_strength ==
    /\ c_label = ""
    /\ c_label' = corr_strength(c_r)
    /\ UNCHANGED c_r

CNext == C_corr_strength /\ UNCHANGED <<dvars, hvars>>

\* Each specification leaves the other parts unused.
DIdle ==
    /\ app = "none" /\ file = MissingFile /\ cache = None /\ ran = FALSE
    /\ min_satisfaction = 0 /\ screen = BlankScreen

HIdle ==
    /\ h_cls = "none" /\ h_df = [columns |-> <<>>, rows |-> <<>>]
    /\ h_hist = <<>> /\ h_turns = <<>>

CIdle == c_r = NaN /\ c_label = "idle"

\* The two pages.
Init == DInit /\ HIdle /\ CIdle
Next ==
    \/ ProdMain /\ UNCHANGED <<hvars, cvars>>
    \/ ProdSubmit /\ UNCHANGED <<hvars, cvars>>
    \/ SatMain /\ UNCHANGED <<hvars, cvars>>
    \/ SatSlide /\ UNCHANGED <<hvars, cvars>>
    \/ SatSubmit /\ UNCHANGED <<hvars, cvars>>
Spec == Init /\ [][Next]_vars

\* _clean_data on small frames.
FilterInit == HInit /\ DIdle /\ CIdle
FilterSpec == FilterInit /\ [][HNext]_vars

\* The strength classification on every stored coefficient.
ClassifyInit == CInit /\ DIdle /\ HIdle
ClassifySpec == ClassifyInit /\ [][CNext]_vars


\* ================================================================ claims

\* s is t with some rows left out, the others in their order.
RECURSIVE IsSubSeq(_, _)
IsSubSeq(s, t) ==
    IF s = <<>> THEN TRUE
    ELSE IF t = <<>> THEN FALSE
    ELSE IF Head(s) = Head(t) THEN IsSubSeq(Tail(s), Tail(t))
    ELSE IsSubSeq(s, Tail(t))

\* The frame the latest call of _clean_data started its loop from.
HStart == dropna(h_hist[Len(h_hist) - 1])

\* The rows of a frame whose value in col lies within [Q1 - 1.5*IQR, Q3 + 1.5*IQR],
\* both ends included, for quartiles Q1, Q3 given in quarters.
WithinFence(rows, col, Q1, Q3) ==
    SelectSeq(rows, LAMBDA r :
        /\ 4 * Q1 - 6 * (Q3 - Q1) <= 16 * r[col]
        /\ 16 * r[col] <= 4 * Q3 + 6 * (Q3 - Q1))

\* C4: the filter takes the variables one after another; each turn computes Q1,
\* Q3 and IQR = Q3 - Q1 on the rows the previous turns left (the first on the
\* rows without missing values), and leaves exactly the rows whose value v has
\* Q1 - 1.5*IQR <= v <= Q3 + 1.5*IQR, bounds included, in their original order.
C4_FenceOnSurvivors ==
    Len(h_hist) >= 2 =>
        LET cols == LoopColumns(h_cls, h_df) IN
        /\ Len(h_turns) = Len(cols)
        /\ \A i \in 1..Len(h_turns) :
              LET t    == h_turns[i]
                  vals == Column(t.before, cols[i])
              IN  /\ t.f.col = cols[i]
                  /\ t.before = IF i = 1 THEN HStart ELSE h_turns[i - 1].after
                  /\ t.f.Q1 = Quantile(vals, 25)
                  /\ t.f.Q3 = Quantile(vals, 75)
                  /\ t.f.IQR = t.f.Q3 - t.f.Q1
                  /\ t.after = WithinFence(t.before, cols[i], t.f.Q1, t.f.Q3)
                  /\ IsSubSeq(t.after, t.before)
        /\ h_df.rows = h_turns[Len(h_turns)].after
        /\ h_hist[Len(h_hist)] = h_df.rows

\* C4's case: the first turn removed a row, so the second turn's quartiles are
\* not those of the original rows, and a row lying exactly on a bound was kept.
C4_Witness ==
    /\ Len(h_hist) >= 2
    /\ Len(h_turns) = 2
    /\ Len(h_turns[1].after) < Len(h_turns[1].before)
    /\ h_turns[2].f.Q3 # Quantile(Column(h_turns[1].before, h_turns[2].f.col), 75)
    /\ h_turns[2].f.IQR > 0
    /\ \E j \in 1..Len(h_turns[2].after) :
          8 * h_turns[2].after[j][h_turns[2].f.col] = h_turns[2].f.upper

\* The turn of the latest call that fenced column x.
HTurnX == CHOOSE t \in {h_turns[i] : i \in 1..Len(h_turns)} : t.f.col = ColX

HQuartileCase == h_hist[1] = QuartileExample /\ Len(h_hist) = 2

\* C8 (as amended): for the values 1,2,3,4,5,100 the filter computes Q1 = 2.25
\* and Q3 = 4.75, hence an upper fence of 8.5, and removes 100 and only 100.
C8_QuartileExample ==
    HQuartileCase =>
        /\ HTurnX.f.Q1 = 9
        /\ HTurnX.f.Q3 = 19
        /\ HTurnX.f.upper = 68
        /\ Column(HTurnX.after, ColX) = <<1, 2, 3, 4, 5>>
        /\ Column(h_df.rows, ColX) = <<1, 2, 3, 4, 5>>

C8_Witness ==
    HQuartileCase /\ Len(HTurnX.before) = 6 /\ Len(h_df.rows) = 5

\* C8 as stated: Q1 = 2 and Q3 = 4.75, an upper fence of 8.875, 100 removed.
C8_AsStated ==
    HQuartileCase =>
        /\ HTurnX.f.Q1 = 8
        /\ HTurnX.f.Q3 = 19
        /\ HTurnX.f.upper = 71
        /\ Column(h_df.rows, ColX) = <<1, 2, 3, 4, 5>>

HRefilterCase == h_hist[1] = RefilterExample /\ Len(h_hist) = 3

\* C9: the filter is not idempotent: filtering the already filtered frame
\* 0,0,0,1,3 removes a further row (the result is a strict sub-frame).
C9_NotIdempotent ==
    HRefilterCase =>
        /\ IsSubSeq(h_hist[3], h_hist[2])
        /\ Len(h_hist[3]) < Len(h_hist[2])
        /\ IsSubSeq(h_hist[2], h_hist[1])

C9_Witness ==
    HRefilterCase /\ Column(h_hist[2], ColX) = <<0, 0, 0, 1>>
                  /\ Column(h_hist[3], ColX) = <<0, 0, 0>>

RowSet(rows) == {rows[i] : i \in 1..Len(rows)}

Reverse(cols) == [i \in 1..Len(cols) |-> cols[Len(cols) + 1 - i]]

HOrderCase == h_hist[1] = OrderExample /\ Len(h_hist) = 2 /\ h_cls = "sat"

\* The rows left when the columns are fenced in the order opposite to the one
\* the latest call used.
HOtherOrder == LoopResult(HStart, FenceLoop(HStart, Reverse(h_df.columns)))

\* C10: the filter is order-dependent: on the two-variable frame
\* (0,0),(0,0),(0,1),(1,0) fencing x then y leaves a different set of rows
\* than fencing y then x.
C10_OrderDependent ==
    HOrderCase =>
        /\ RowSet(h_df.rows) # RowSet(HOtherOrder)
        /\ RowSet(h_df.rows) =
              IF h_df.columns = <<ColX, ColY>> THEN {Row(0, 0), Row(0, 1)}
              ELSE {Row(0, 0), Row(1, 0)}

C10_Witness ==
    HOrderCase /\ h_df.columns = <<ColY, ColX>> /\ Row(1, 0) \in RowSet(h_df.rows)
               /\ Row(1, 0) \notin RowSet(HOtherOrder)

\* ------------------------------------------------- claims on the two pages

\* The rows of the file once the page's class has cleaned them.
CleanedFile == clean_data(app, [columns |-> file.columns, rows |-> file.rows]).rows

\* What a loader leaves when it gives up with the message e.
InsufficientAnalyzer ==
    [fig |-> None, report |-> None,
     error |-> <<"Erro na análise: ", "Dados insuficientes para análise">>]

InsufficientAnalysis ==
    [analyzer |-> None, error |-> <<"Erro no processamento: ", "Dados insuficientes">>]

\* C1: when fewer than 30 rows remain after missing-value removal and outlier
\* filtering, the analysis ends with the insufficient-data error and nothing
\* partial: load_analyzer gives no figure and no report, load_analysis no
\* analyzer, and the page shows the error and draws nothing.
C1_InsufficientDataAborts ==
    (ran /\ file.exists /\ Len(CleanedFile) < 30) =>
        /\ cache = Some(IF app = "prod" THEN InsufficientAnalyzer ELSE InsufficientAnalysis)
        /\ screen.error = cache[1].error
        /\ screen.exception = ""
        /\ screen.chart = None /\ screen.report = None
        /\ screen.key = None /\ screen.metric = None /\ screen.impacto = None

\* C1's case: the file has 30 rows without a missing value, and the outlier
\* filter leaves fewer than 30.
C1_Witness ==
    /\ ran /\ file.exists /\ app = "sat"
    /\ Len(dropna(file.rows)) >= 30
    /\ Len(CleanedFile) < 30
    /\ screen.error # NoError

\* Every row has the same value in col.
ConstantColumn(rows, col) == \A i, j \in 1..Len(rows) : rows[i][col] = rows[j][col]

\* The rows the satisfaction page is showing: the scatter trace of its chart.
ShownRows == screen.chart[1].scatter

\* The correlation as the page renders it: r and r^2 in the chart's annotation,
\* the significance in the insights, the line in the trend trace.
RenderedCorrelation ==
    [pearson_r     |-> screen.chart[1].annotation.pearson_r,
     r_squared     |-> screen.chart[1].annotation.r_squared,
     significancia |-> screen.report[1].significancia,
     slope         |-> screen.chart[1].trend.slope,
     intercept     |-> screen.chart[1].trend.intercept]

\* C2: at every render of the satisfaction page, whatever the slider, the
\* rendered pearson_r, r_squared, significance, slope and trend line are those
\* of the correlation run on the rows being shown (here: 30 or more rows with
\* neither variable constant, where the correlation is defined).
C2_RenderedIsRecomputed ==
    (/\ app = "sat" /\ ran /\ screen.chart # None
     /\ Len(ShownRows) >= 30
     /\ ~ConstantColumn(ShownRows, ColX) /\ ~ConstantColumn(ShownRows, ColY)) =>
        \A svd \in SvdOutcomes :
            RenderedCorrelation = CorrelationOf(ShownRows, polyfit(ShownRows, svd))

\* C3: the label of a coefficient r in [-1, 1] is decided by |r|, strongest
\* band first: Strong iff |r| >= 0.7, Moderate iff 0.3 <= |r| < 0.7, Weak/None
\* iff |r| < 0.3.
C3_StrengthBands ==
    (c_label \notin {"", "idle"} /\ c_r # NaN) =>
        /\ c_label = "Forte Positiva" <=> Abs(c_r) >= 700
        /\ c_label = "Moderada Positiva" <=> (300 <= Abs(c_r) /\ Abs(c_r) < 700)
        /\ c_label = "Fraca/Nula" <=> Abs(c_r) < 300

\* C3's case: r exactly -0.7, on the boundary two bands share, labelled Strong.
C3_Witness == c_r = -700 /\ c_label = "Forte Positiva"

\* C5: when a variable is constant in the rows that reach the correlation, the
\* analysis aborts with an error; no NaN pearson_r is stored, classified or
\* rendered.
C5_DegenerateInputAborts ==
    (ran /\ file.exists /\ Len(CleanedFile) >= 30
         /\ (ConstantColumn(CleanedFile, ColX) \/ ConstantColumn(CleanedFile, ColY))) =>
        /\ screen.error # NoError
        /\ screen.chart = None /\ screen.report = None /\ screen.key = None

\* A group of the report is empty: no row shown has x at least / at most the limit.
NoRowAtLeast(rows, limit) == \A i \in 1..Len(rows) : rows[i].x < limit
NoRowAtMost(rows, limit) == \A i \in 1..Len(rows) : rows[i].x > limit

StrengthLabels ==
    {"Forte Positiva", "Moderada Positiva", "Fraca/Nula", "Moderada Negativa",
     "Forte Negativa", "Indeterminada"}

StoredR == screen.chart[1].annotation.pearson_r
StoredRSquared == screen.chart[1].annotation.r_squared

\* floor(scale * 10^6 * r^2) for a coefficient as pearsonr computes it.
ScaledRSquared(corr, scale) ==
    ScaleFloor((scale * corr.sq[1]) \div corr.sq[2],
               (scale * corr.sq[1]) % corr.sq[2], corr.sq[2], 6)

HasCorrelation == ran /\ screen.chart # None

\* k and j (thousandths) are r and r*r rounded to 3 decimals:
\* |1000 r - k| <= 1/2 with the sign of r, |1000 r*r - j| <= 1/2; NaN for a NaN r.
RoundedFrom(corr, k, j) ==
    IF IsNaNFrac(corr.sq) THEN IsNaN(k) /\ IsNaN(j)
    ELSE /\ k \in -1000..1000
         /\ k # 0 => Sign(k) = corr.sign
         /\ k = 0 \/ (2 * Abs(k) - 1) * (2 * Abs(k) - 1) <= ScaledRSquared(corr, 4)
         /\ ScaledRSquared(corr, 4) < (2 * Abs(k) + 1) * (2 * Abs(k) + 1)
         /\ 2000 * j - 1000 <= ScaledRSquared(corr, 2)
         /\ ScaledRSquared(corr, 2) < 2000 * j + 1000

\* C7 (as amended): the engine rounds at storage: the stored pearson_r is the
\* computed r rounded to 3 decimals, the stored r_squared is r*r rounded to 3
\* decimals (so it need not be the square of the stored pearson_r), both NaN
\* when r is NaN, and the strength label is the band of the stored, rounded r.
C7_StoredRounded ==
    HasCorrelation =>
        /\ \A corr \in {pearsonr(CleanedFile)} : RoundedFrom(corr, StoredR, StoredRSquared)
        /\ screen.report[1].corr_strength =
              IF IsNaN(StoredR) THEN "Indeterminada"
              ELSE IF Abs(StoredR) >= 700 THEN "Forte Positiva"
              ELSE IF Abs(StoredR) >= 300 THEN "Moderada Positiva"
              ELSE "Fraca/Nula"

\* C7's case: a stored r_squared that is not the square of the stored pearson_r.
C7_Witness ==
    /\ HasCorrelation /\ ~IsNaN(StoredR)
    /\ 1000 * StoredRSquared # StoredR * StoredR
    /\ pearsonr(CleanedFile).sq # Frac(StoredR * StoredR, 1000000)

\* C7 as stated: the stored pearson_r and r_squared are the computed r and r*r
\* exactly, so the stored r_squared is the square of the stored pearson_r.
C7_StoredExact ==
    (HasCorrelation /\ ~IsNaN(StoredR)) =>
        /\ pearsonr(CleanedFile).sq = Frac(StoredR * StoredR, 1000000)
        /\ 1000 * StoredRSquared = StoredR * StoredR

\* The slope of the fitted line of the analysis on the page: the trend trace's.
FittedSlope == screen.chart[1].trend.slope

\* slope * deltaX written with `precision` decimals.
ProjectedImpact(deltaX, precision) ==
    RoundFrac(FracMul(FittedSlope, <<deltaX, 1>>), precision)

\* C11: in both dashboards the projected impact shown for a change deltaX, the
\* simulator's slider value and the fixed +10% figure, is the fitted slope of
\* the analysed dataset times deltaX.
C11_ImpactIsSlopeTimesDelta ==
    (ran /\ screen.chart # None /\ screen.report # None) =>
        /\ app = "sat" =>
              /\ screen.report[1].impact = ProjectedImpact(10, 2)
              /\ screen.impacto # None =>
                    screen.impacto[1].value = ProjectedImpact(screen.impacto[1].aumento, 2)
        /\ app = "prod" =>
              /\ screen.metric = Some(ProjectedImpact(10, 0))
              /\ screen.impacto # None =>
                    screen.impacto[1].value = ProjectedImpact(screen.impacto[1].aumento, 0)

\* The trend trace of the chart on the page.
Trend == screen.chart[1].trend

\* lo is the least and hi the greatest x among the rows.
IsRangeOf(rows, lo, hi) ==
    /\ \E i \in 1..Len(rows) : rows[i].x = lo
    /\ \E i \in 1..Len(rows) : rows[i].x = hi
    /\ \A i \in 1..Len(rows) : lo <= rows[i].x /\ rows[i].x <= hi

\* The value slope * x + intercept of the trend's line at an integer x.
LineAt(x) == FracSub(FracMul(Trend.slope, <<x, 1>>), <<-Trend.intercept[1], Trend.intercept[2]>>)

\* The numbers of a sequence are evenly spaced.
EvenlySpaced(vals) ==
    \A i \in 1..(Len(vals) - 2) : vals[i + 1] - vals[i] = vals[i + 2] - vals[i + 1]

\* C12: whatever the size of the dataset the chart is built from, the trend
\* curve has exactly 100 points, evenly spaced in x from min(x) to max(x) of
\* that dataset, each y being slope*x + intercept (evenly spaced y with both
\* ends on the line); every point is thereby a function of the inputs.  Of an
\* empty dataset, or with NaN coefficients, the 100 values are NaN.
C12_TrendCurve ==
    (ran /\ screen.chart # None) =>
        /\ Len(Trend.x) = 100 /\ Len(Trend.y) = 100
        /\ Trend.xunit = 99
        /\ ShownRows = <<>> => \A i \in 1..100 : IsNaN(Trend.x[i]) /\ IsNaN(Trend.y[i])
        /\ ShownRows # <<>> =>
              /\ \A i \in 1..100 : ~IsNaN(Trend.x[i])
              /\ Trend.x[1] % 99 = 0 /\ Trend.x[100] % 99 = 0
              /\ IsRangeOf(ShownRows, Trend.x[1] \div 99, Trend.x[100] \div 99)
              /\ EvenlySpaced(Trend.x)
              /\ IF IsNaNFrac(Trend.slope) \/ IsNaNFrac(Trend.intercept)
                 THEN \A i \in 1..100 : IsNaN(Trend.y[i])
                 ELSE /\ \A i \in 1..100 : ~IsNaN(Trend.y[i])
                      /\ EvenlySpaced(Trend.y)
                      /\ Frac(Trend.y[1], Trend.yunit) = LineAt(Trend.x[1] \div 99)
                      /\ Frac(Trend.y[100], Trend.yunit) = LineAt(Trend.x[100] \div 99)

\* C12's case: a chart of the rows the slider left (30 of them, fewer than were
\* analysed), with a sloping line over a range that is not a point.
C12_Witness ==
    /\ app = "sat" /\ ran /\ screen.chart # None
    /\ min_satisfaction = 50
    /\ Len(ShownRows) = 30
    /\ Trend.x[1] = 99 * 50 /\ Trend.x[100] = 99 * 80
    /\ Trend.x[2] = 99 * 50 + 30
    /\ Trend.y[1] # Trend.y[100]

\* C13: for every pearson_r in [-1, 1] the label is 'Forte Positiva',
\* 'Moderada Positiva' or 'Fraca/Nula', never 'Moderada Negativa', 'Forte
\* Negativa' or 'Indeterminada'; r and -r get the same label, so an
\* r <= -0.7 is labelled 'Forte Positiva'.
C13_LabelsIgnoreSign ==
    (c_label \notin {"", "idle"} /\ c_r # NaN) =>
        /\ c_label \in {"Forte Positiva", "Moderada Positiva", "Fraca/Nula"}
        /\ c_label = corr_strength(-c_r)
        /\ c_r <= -700 => c_label = "Forte Positiva"

\* C13's case: a strong negative coefficient, r = -0.85.
C13_Witness == c_r = -850 /\ c_label = "Forte Positiva"

\* What load_analysis returned in the latest run of the satisfaction page.
LoadedAnalysis == cache[1]

\* C14: on the satisfaction page, whatever the load outcome (file missing,
\* fewer than 30 cleaned rows, the correlation raising, success), an analyzer
\* that load_analysis returns has its correlation and regression_line set: no
\* run of main ends in an exception from plot_interactive or the key
\* statistics, and generate_insights never answers 'Dados insuficientes para
\* gerar insights'.
C14_LoadedAnalyzerComplete ==
    (app = "sat" /\ ran) =>
        /\ cache # None
        /\ LoadedAnalysis.analyzer # None =>
              /\ LoadedAnalysis.error = NoError
              /\ LoadedAnalysis.analyzer[1].df # None
              /\ LoadedAnalysis.analyzer[1].correlation # None
              /\ LoadedAnalysis.analyzer[1].regression_line # None
              /\ screen.chart # None /\ screen.report # None /\ screen.key # None
              /\ screen.report[1].text # "Dados insuficientes para gerar insights"
        /\ LoadedAnalysis.analyzer = None =>
              /\ LoadedAnalysis.error # NoError
              /\ screen = [BlankScreen EXCEPT !.error = LoadedAnalysis.error]
        /\ screen.exception = ""

\* C14's case: an analyzer returned for exactly 30 cleaned rows, the fewest
\* load_analysis lets through, and drawn.
C14_Witness ==
    /\ app = "sat" /\ ran /\ cache # None
    /\ LoadedAnalysis.analyzer # None
    /\ Len(LoadedAnalysis.analyzer[1].df[1].rows) = 30
    /\ LoadedAnalysis.analyzer[1].correlation # None
    /\ screen.report # None /\ screen.report[1].text = "insights"

====
